---- MODULE Spec2Model ----
(***************************************************************************)
(* A model of find-screenshots (src/main.py): the classification funnel    *)
(* is_screenshot and the scan / copy / move driver main.                   *)
(*                                                                         *)
(* A string of the program is a sequence of one-character strings, so that *)
(* lower(), suffix and the substring test are computed, not assumed.       *)
(* A path is a record [dir, name]: dir is the sequence of directory        *)
(* components, name the final component (a character sequence).            *)
(***************************************************************************)
EXTENDS Integers, Sequences, FiniteSets, TLC

(***************************************************************************)
(* Bounds of the model.                                                    *)
(***************************************************************************)
\* widths and heights 0..MaxDim are enumerated exhaustively
MaxDim == 8

(***************************************************************************)
(* Strings.                                                                *)
(***************************************************************************)
UpperCase == <<"A","B","C","D","E","F","G","H","I","J","K","L","M",
               "N","O","P","Q","R","S","T","U","V","W","X","Y","Z">>
LowerCase == <<"a","b","c","d","e","f","g","h","i","j","k","l","m",
               "n","o","p","q","r","s","t","u","v","w","x","y","z">>

\* str.lower() on one character: cased letters are mapped, the rest kept
lower_char(c) ==
    IF \E k \in 1..Len(UpperCase) : UpperCase[k] = c
    THEN LowerCase[CHOOSE k \in 1..Len(UpperCase) : UpperCase[k] = c]
    ELSE c

\* str.lower()
lower(s) == [k \in 1..Len(s) |-> lower_char(s[k])]

\* the `in` operator on strings: sub occurs in s as a contiguous substring
contains(sub, s) ==
    \E k \in 0..(Len(s) - Len(sub)) : SubSeq(s, k + 1, k + Len(sub)) = sub

\* str.rfind('.') as a 1-based index, 0 when there is no dot
rfind_dot(s) ==
    IF \E k \in 1..Len(s) : s[k] = "."
    THEN CHOOSE k \in 1..Len(s) :
            s[k] = "." /\ \A m \in (k + 1)..Len(s) : s[m] # "."
    ELSE 0

\* PurePath.suffix of a final component: the text from the last dot on,
\* unless that dot is the first or the last character of the name
suffix(name) ==
    LET k == rfind_dot(name)
    IN  IF 1 < k /\ k < Len(name) THEN SubSeq(name, k, Len(name)) ELSE <<>>

(***************************************************************************)
(* The constant tables of the program.                                     *)
(***************************************************************************)
IMAGE_EXTENSIONS ==
    { <<".","p","n","g">>, <<".","j","p","g">>, <<".","j","p","e","g">>,
      <<".","h","e","i","c">>, <<".","w","e","b","p">> }

\* the two Chinese keywords are written with their code points as characters
SCREENSHOT_KEYWORDS ==
    << <<"s","c","r","e","e","n","s","h","o","t">>,
       <<"U+622A","U+5C4F">>,
       <<"U+5C4F","U+5E55","U+622A","U+56FE">>,
       <<"s","c","r","e","e","n","_","s","h","o","t">>,
       <<"c","a","p","t","u","r","e","s">> >>

\* variant: the 16:9 range widened to 1.777 +/- 0.05
SCREENSHOT_RATIO_RANGES_widened == << <<130, 136>>, <<172, 183>>, <<195, 240>> >>

\* (min_r, max_r) in hundredths: min_r <= long/short <= max_r is decided on
\* integers as min_r * short <= 100 * long <= max_r * short
SCREENSHOT_RATIO_RANGES == << <<130, 136>>, <<175, 180>>, <<195, 240>> >>

\* 33434 ExposureTime, 33437 FNumber, 34855 ISOSpeedRatings
photo_tags == {33434, 33437, 34855}

(***************************************************************************)
(* The inputs of is_screenshot.                                            *)
(***************************************************************************)
Stems ==
    { <<"i","m","g">>,
      <<"S","c","r","e","e","n","s","h","o","t","_","1">>,
      <<"m","y","_","S","C","R","E","E","N","_","S","H","O","T">>,
      <<"U+622A","U+5C4F","1">>,
      <<"a","U+5C4F","U+5E55","U+622A","U+56FE">>,
      <<"C","a","p","t","u","r","e","s">>,
      <<"s","c","r","e","e","n","s","h","o">>,
      <<"s","c","r","e","e","n","s","h","o","t",".","p","n","g">>,
      <<>> }

Exts ==
    { <<".","p","n","g">>, <<".","P","N","G">>, <<".","j","p","g">>,
      <<".","J","p","e","g">>, <<".","h","e","i","c">>,
      <<".","w","e","b","p">>, <<".","t","x","t">>, <<".","p","n","g","x">>, <<".","c","a","p","t","u","r","e","s">>,
      <<"p","n","g">>, <<".">>, <<>> }

Names == { st \o ex : st \in Stems, ex \in Exts } \ { <<>> }

\* directory parts; a keyword in a directory name is not in the base name
ScanDirs == { <<"r">>, <<"r","Screenshots">> }

Paths == [dir : ScanDirs, name : Names]

\* what Image.open raises for a file it cannot read
OpenErrors == {"UnidentifiedImageError", "OSError"}

\* what img._getexif() yields: None, a tag -> value mapping (its key set is
\* modelled), or an exception (AttributeError for an image class without
\* _getexif, or a parser error)
ExifValues ==
    { [kind |-> "None", tags |-> {}], [kind |-> "AttributeError", tags |-> {}] }
    \cup { [kind |-> "dict", tags |-> t] :
             t \in { {}, {271, 36867}, {33434}, {34855}, {271, 33437} } }

\* sizes beyond MaxDim that sit on, just inside and just outside the bounds
\* of the ranges, and the sizes of the test suite
ExtraSizes ==
    { <<34, 25>>, <<25, 34>>, <<39, 20>>, <<20, 39>>, <<137, 100>>,
      <<100, 129>>, <<174, 100>>, <<181, 100>>, <<100, 194>>, <<241, 100>>,
      <<472, 1024>>, <<1024, 1024>>, <<1920, 1080>>, <<0, 1024>> }

\* what img.size yields: (w, h), or an exception
SizeValues ==
    { [kind |-> "ok", w |-> d[1], h |-> d[2]] :
        d \in ((0..MaxDim) \X (0..MaxDim)) \cup ExtraSizes }
    \cup { [kind |-> "OSError", w |-> 0, h |-> 0] }

NoExif == [kind |-> "None", tags |-> {}]
NoSize == [kind |-> "ok", w |-> 1, h |-> 1]

\* a file as the image provider presents it
Images ==
    { [open |-> e, exif |-> NoExif, size |-> NoSize] : e \in OpenErrors }
    \cup [open : {"ok"}, exif : ExifValues, size : SizeValues]

(***************************************************************************)
(* The predicates of the funnel, one per test of is_screenshot.            *)
(***************************************************************************)
\* variant: the extension is looked for anywhere in the name
extension_ok_anywhere(file_path) ==
    \E e \in IMAGE_EXTENSIONS : contains(e, lower(file_path.name))

\* line 55: the lower-cased suffix is a recognized image extension
extension_ok(file_path) == lower(suffix(file_path.name)) \in IMAGE_EXTENSIONS

\* variant: the base name is not lower-cased before the test
keyword_in_name_cased(file_path) ==
    \E k \in 1..Len(SCREENSHOT_KEYWORDS) :
        contains(SCREENSHOT_KEYWORDS[k], file_path.name)

\* lines 58-63: some keyword occurs in the lower-cased base name
keyword_in_name(file_path) ==
    \E k \in 1..Len(SCREENSHOT_KEYWORDS) :
        contains(SCREENSHOT_KEYWORDS[k], lower(file_path.name))

\* variant: all three photo tags are required
exif_is_photo_all(e) ==
    /\ e.kind = "dict"
    /\ e.tags # {}
    /\ \A tag \in photo_tags : tag \in e.tags

\* lines 72-79: exif is truthy (not None, not empty) and holds a photo tag
exif_is_photo(e) ==
    /\ e.kind = "dict"
    /\ e.tags # {}
    /\ \E tag \in photo_tags : tag \in e.tags

\* variant: the bounds of the ranges are excluded
ratio_matches_strict(w, h) ==
    LET long_side  == IF w >= h THEN w ELSE h
        short_side == IF w >= h THEN h ELSE w
    IN  \E k \in 1..Len(SCREENSHOT_RATIO_RANGES) :
            /\ SCREENSHOT_RATIO_RANGES[k][1] * short_side < 100 * long_side
            /\ 100 * long_side < SCREENSHOT_RATIO_RANGES[k][2] * short_side

\* lines 86-92: long_side / short_side lies in one of the inclusive ranges
ratio_matches(w, h) ==
    LET long_side  == IF w >= h THEN w ELSE h
        short_side == IF w >= h THEN h ELSE w
    IN  \E k \in 1..Len(SCREENSHOT_RATIO_RANGES) :
            /\ SCREENSHOT_RATIO_RANGES[k][1] * short_side <= 100 * long_side
            /\ 100 * long_side <= SCREENSHOT_RATIO_RANGES[k][2] * short_side

\* variant: only the clause except (UnidentifiedImageError, OSError)
except_result_narrow(e) ==
    IF e \in {"UnidentifiedImageError", "OSError"} THEN "False"
    ELSE "raised"

\* lines 94-98: the two except clauses; every exception class of the model
\* derives from Exception, so the call returns False
except_result(e) ==
    IF e \in {"UnidentifiedImageError", "OSError"} THEN "False"
    ELSE IF e \in {"AttributeError"} THEN "False"
    ELSE "raised"

(***************************************************************************)
(* is_screenshot as a function of the path and of what the file presents.  *)
(***************************************************************************)
is_screenshot(path, image) ==
    IF ~extension_ok(path) THEN "False"
    ELSE IF keyword_in_name(path) THEN "True"
    ELSE IF image.open # "ok" THEN except_result(image.open)
    ELSE IF image.exif.kind \notin {"None", "dict"}
         THEN except_result(image.exif.kind)
    ELSE IF exif_is_photo(image.exif) THEN "False"
    ELSE IF image.size.kind # "ok" THEN except_result(image.size.kind)
    ELSE IF image.size.w = 0 \/ image.size.h = 0 THEN "False"
    ELSE IF ratio_matches(image.size.w, image.size.h) THEN "True"
    ELSE "False"

(***************************************************************************)
(* One call of is_screenshot, statement by statement.                      *)
(*   file_path, img  the argument and the file behind it                   *)
(*   pc              the statement the call is at                          *)
(*   result          "none" while running, then "True", "False" or, for an *)
(*                   exception that leaves the call, "raised"              *)
(*   handles         file handles the call holds open                      *)
(*   opens           calls of Image.open made so far                       *)
(*   exif, size      the locals exif and (w, h), once assigned             *)
(***************************************************************************)
VARIABLES file_path, img, pc, result, handles, opens, exif, size

(***************************************************************************)
(* The state of one run of main.                                           *)
(*   copy_to, move_to  the options: given or not, and the path given       *)
(*   dirstat           per directory path: "absent", "dir", or "file" when *)
(*                     the path names something that is not a directory    *)
(*   entries           per (directory, base name): the directory entry     *)
(*   decoded           per file content: what the image provider presents  *)
(*   mpc               the statement the run is at                         *)
(*   image_files, scan_pos  the list of line 129, the position of the scan  *)
(*   found_files       the matched list                                    *)
(*   dest_dir, action_type      the locals of the copy/move phase          *)
(*   copy_pos          the position of the loop of line 174                *)
(*   log               per processed file of the phase, what was done      *)
(***************************************************************************)
VARIABLES copy_to, move_to, dirstat, entries, decoded, mpc, image_files, scan_pos,
          found_files, dest_dir, action_type, copy_pos, log

mvars == <<copy_to, move_to, dirstat, entries, decoded, mpc, image_files, scan_pos,
           found_files, dest_dir, action_type, copy_pos, log>>

cvars == <<file_path, img, pc, result, handles, opens, exif, size>>

vars == <<cvars, mvars>>

\* variant: the image is opened without a with block and never closed
ReturnNoClose(v) ==
    /\ result' = v
    /\ handles' = handles
    /\ pc' = "done"

\* return v from inside the with block: the context manager closes the file
ReturnInWith(v) ==
    /\ result' = v
    /\ handles' = handles - 1
    /\ pc' = "done"

\* lines 55-56
ExtensionGate ==
    /\ pc = "extension"
    /\ IF extension_ok(file_path)
       THEN pc' = "keywords" /\ result' = result
       ELSE pc' = "done" /\ result' = "False"
    /\ UNCHANGED <<file_path, img, handles, opens, exif, size>>
    /\ UNCHANGED mvars

\* lines 58-63
FilenameMatch ==
    /\ pc = "keywords"
    /\ IF keyword_in_name(file_path)
       THEN pc' = "done" /\ result' = "True"
       ELSE pc' = "open" /\ result' = result
    /\ UNCHANGED <<file_path, img, handles, opens, exif, size>>
    /\ UNCHANGED mvars

\* line 67, with the except clauses of lines 94-98 for a failed open
ImageOpen ==
    /\ pc = "open"
    /\ opens' = opens + 1
    /\ IF img.open = "ok"
       THEN /\ handles' = handles + 1
            /\ pc' = "exif"
            /\ result' = result
       ELSE /\ handles' = handles
            /\ pc' = "done"
            /\ result' = except_result(img.open)
    /\ UNCHANGED <<file_path, img, exif, size>>
    /\ UNCHANGED mvars

\* lines 71-79
ExifExclusion ==
    /\ pc = "exif"
    /\ IF img.exif.kind \notin {"None", "dict"}
       THEN ReturnInWith(except_result(img.exif.kind)) /\ exif' = exif
       ELSE /\ exif' = img.exif
            /\ IF exif_is_photo(img.exif)
               THEN ReturnInWith("False")
               ELSE pc' = "size" /\ UNCHANGED <<result, handles>>
    /\ UNCHANGED <<file_path, img, opens, size>>
    /\ UNCHANGED mvars

\* lines 82-83
SizeCheck ==
    /\ pc = "size"
    /\ IF img.size.kind # "ok"
       THEN ReturnInWith(except_result(img.size.kind)) /\ size' = size
       ELSE /\ size' = img.size
            /\ IF img.size.w = 0 \/ img.size.h = 0
               THEN ReturnInWith("False")
               ELSE pc' = "ratio" /\ UNCHANGED <<result, handles>>
    /\ UNCHANGED <<file_path, img, opens, exif>>
    /\ UNCHANGED mvars

\* lines 86-92; without a match the with block is left at its end
RatioCheck ==
    /\ pc = "ratio"
    /\ IF ratio_matches(size.w, size.h)
       THEN ReturnInWith("True")
       ELSE /\ handles' = handles - 1
            /\ pc' = "default"
            /\ result' = result
    /\ UNCHANGED <<file_path, img, opens, exif, size>>
    /\ UNCHANGED mvars

\* line 100
DefaultReturn ==
    /\ pc = "default"
    /\ pc' = "done"
    /\ result' = "False"
    /\ UNCHANGED <<file_path, img, handles, opens, exif, size>>
    /\ UNCHANGED mvars

CallNext ==
    \/ ExtensionGate
    \/ FilenameMatch
    \/ ImageOpen
    \/ ExifExclusion
    \/ SizeCheck
    \/ RatioCheck
    \/ DefaultReturn


(***************************************************************************)
(* The file system and the command line of main.                           *)
(***************************************************************************)
\* the folder argument, a subdirectory of it, and two destinations
R  == <<"r">>
RS == <<"r", "s">>
D  == <<"d">>
DE == <<"d", "e">>

DirUniverse == {R, RS, D, DE}

nameA == <<"S","c","r","e","e","n","s","h","o","t","_","1",".","p","n","g">>
nameB == <<"i","m","g",".","J","P","G">>
nameT == <<"n","o","t","e","s",".","t","x","t">>

MainNames == {nameA, nameB, nameT}

Slots == [dir : DirUniverse, name : MainNames]

\* a directory entry: nothing, a regular file, a directory, or a symbolic
\* link; data is the content of the file, or of the file the link resolves
\* to, "nothing" for a dangling link
Absent == [kind |-> "absent", data |-> "nothing"]
File(c) == [kind |-> "file", data |-> c]
Subdir == [kind |-> "dir", data |-> "nothing"]
Dangling == [kind |-> "link", data |-> "nothing"]

\* an option of the command line: None when not given, else a path string;
\* the empty string is the empty sequence of components
None == [given |-> FALSE, path |-> <<>>]
Given(path) == [given |-> TRUE, path |-> path]

OptionValues == {None, Given(<<>>), Given(D), Given(DE)}

\* truth value of an Optional[str] in `if copy_to:` (lines 163, 166)
truthy(opt) == opt.given /\ opt.path # <<>>

IsPrefix(a, b) == Len(a) <= Len(b) /\ SubSeq(b, 1, Len(a)) = a

\* Path.exists() and Path.is_file() follow symbolic links
path_exists(e) == e.kind \in {"file", "dir"} \/ (e.kind = "link" /\ e.data # "nothing")
is_file(e) == e.kind = "file" \/ (e.kind = "link" /\ e.data # "nothing")

\* all orders in which rglob may yield the members of S
Orders(S) ==
    { q \in [1..Cardinality(S) -> S] : \A a, b \in DOMAIN q : a # b => q[a] # q[b] }

\* what the image provider presents for the file contents of the model
PhoneImage == [open |-> "ok", exif |-> NoExif,
               size |-> [kind |-> "ok", w |-> 472, h |-> 1024]]
SquareImage == [open |-> "ok", exif |-> NoExif,
                size |-> [kind |-> "ok", w |-> 1024, h |-> 1024]]
PhotoImage == [open |-> "ok", exif |-> [kind |-> "dict", tags |-> {271, 33437}],
               size |-> [kind |-> "ok", w |-> 1920, h |-> 1080]]
NotAnImage == [open |-> "UnidentifiedImageError", exif |-> NoExif, size |-> NoSize]

Contents == {"c1", "c2", "c3", "c4", "old", "partial"}

\* the initial file systems: the tree under the folder argument holds up to
\* four files, the destinations may exist and hold entries with the base
\* name of a file to transfer
Slot(d, nm) == [dir |-> d, name |-> nm]

InitialEntries ==
    { [s \in Slots |->
         CASE s = Slot(R, nameA)  -> a1
           [] s = Slot(RS, nameA) -> a2
           [] s = Slot(R, nameB)  -> a3
           [] s = Slot(R, nameT)  -> a4
           [] s = Slot(D, nameA)  -> b1
           [] s = Slot(D, nameB)  -> b2
           [] s = Slot(DE, nameA) -> b3
           [] OTHER -> Absent] :
        a1 \in {Absent, File("c1")}, a2 \in {Absent, File("c2")},
        a3 \in {Absent, File("c3")}, a4 \in {Absent, File("c4")},
        b1 \in {Absent, File("old"), Subdir, Dangling},
        b2 \in {Absent}, b3 \in {Absent, File("old")} }

InitialDirs ==
    { d \in [DirUniverse -> {"absent", "dir", "file"}] :
        /\ d[R] \in {"absent", "dir"}
        /\ d[RS] \in {"absent", "dir"}
        /\ d[RS] = "dir" => d[R] = "dir"
        /\ d[DE] # "absent" => d[D] = "dir" }

\* entries live in existing directories only; the subdirectory of the
\* folder is never empty, and the folder always holds the text file
WellFormed(d, e) ==
    /\ \A s \in Slots : e[s] # Absent => d[s.dir] = "dir"
    /\ d[RS] = "dir" => e[Slot(RS, nameA)] # Absent
    /\ d[R] = "dir" => e[Slot(R, nameT)] # Absent

MainInit ==
    /\ copy_to \in OptionValues
    /\ move_to \in OptionValues
    /\ dirstat \in InitialDirs
    /\ entries \in InitialEntries
    /\ WellFormed(dirstat, entries)
    /\ decoded \in { [c \in Contents |->
                        CASE c = "c3" -> i
                          [] c \in {"c4", "partial"} -> NotAnImage
                          [] OTHER -> SquareImage] :
                     i \in {PhoneImage, PhotoImage} }
    /\ mpc = "start"
    /\ image_files = <<>>
    /\ scan_pos = 1
    /\ found_files = <<>>
    /\ dest_dir = None
    /\ action_type = "None"
    /\ copy_pos = 1
    /\ log = <<>>
    \* no direct call of is_screenshot is under way
    /\ file_path = [dir |-> R, name |-> nameA]
    /\ img = SquareImage
    /\ pc = "idle"
    /\ result = "none"
    /\ handles = 0
    /\ opens = 0
    /\ exif = NoExif
    /\ size = NoSize

(***************************************************************************)
(* main, statement by statement.                                           *)
(***************************************************************************)
\* lines 115-121: a missing folder ends the run with exit code 1
CheckFolder ==
    /\ mpc = "start"
    /\ mpc' = IF dirstat[R] = "absent" THEN "exit1" ELSE "rglob"
    /\ UNCHANGED <<copy_to, move_to, dirstat, entries, decoded, image_files,
                   scan_pos, found_files, dest_dir, action_type, copy_pos, log>>
    /\ UNCHANGED cvars

\* lines 126-129: the regular files below the folder with an image
\* extension, in the order rglob yields them
ListImages ==
    /\ mpc = "rglob"
    /\ image_files' \in Orders({ s \in Slots :
                                   /\ IsPrefix(R, s.dir)
                                   /\ is_file(entries[s])
                                   /\ extension_ok(s) })
    /\ mpc' = "scan"
    /\ UNCHANGED <<copy_to, move_to, dirstat, entries, decoded,
                   scan_pos, found_files, dest_dir, action_type, copy_pos, log>>
    /\ UNCHANGED cvars

\* lines 131-133: one iteration of the scan
ScanFile ==
    /\ mpc = "scan"
    /\ scan_pos <= Len(image_files)
    /\ LET f == image_files[scan_pos]
       IN  found_files' =
             IF is_screenshot(f, decoded[entries[f].data]) = "True"
             THEN Append(found_files, f)
             ELSE found_files
    /\ scan_pos' = scan_pos + 1
    /\ UNCHANGED <<copy_to, move_to, dirstat, entries, decoded, mpc,
                   image_files, dest_dir, action_type, copy_pos, log>>
    /\ UNCHANGED cvars

\* lines 136-157: without a match main returns, else it prints the table
Report ==
    /\ mpc = "scan"
    /\ scan_pos > Len(image_files)
    /\ mpc' = IF found_files = <<>> THEN "returned" ELSE "select"
    /\ UNCHANGED <<copy_to, move_to, dirstat, entries, decoded, image_files,
                   scan_pos, found_files, dest_dir, action_type, copy_pos, log>>
    /\ UNCHANGED cvars

\* variant: the two branches in the other order, --move-to tested first
SelectMoveFirst ==
    /\ mpc = "select"
    /\ IF truthy(move_to)
       THEN dest_dir' = Given(move_to.path) /\ action_type' = "move"
       ELSE IF truthy(copy_to)
       THEN dest_dir' = Given(copy_to.path) /\ action_type' = "copy"
       ELSE dest_dir' = None /\ action_type' = "None"
    /\ mpc' = "mkdir"
    /\ UNCHANGED <<copy_to, move_to, dirstat, entries, decoded, image_files,
                   scan_pos, found_files, copy_pos, log>>
    /\ UNCHANGED cvars

\* lines 160-168
SelectAction ==
    /\ mpc = "select"
    /\ IF truthy(copy_to)
       THEN dest_dir' = Given(copy_to.path) /\ action_type' = "copy"
       ELSE IF truthy(move_to)
       THEN dest_dir' = Given(move_to.path) /\ action_type' = "move"
       ELSE dest_dir' = None /\ action_type' = "None"
    /\ mpc' = "mkdir"
    /\ UNCHANGED <<copy_to, move_to, dirstat, entries, decoded, image_files,
                   scan_pos, found_files, copy_pos, log>>
    /\ UNCHANGED cvars

\* Path.mkdir(parents=True, exist_ok=True) raises when the path or one of
\* its ancestors names something that is not a directory
mkdir_raises(path) ==
    \E q \in DirUniverse : IsPrefix(q, path) /\ dirstat[q] = "file"

\* lines 170-172: a Path is always true, so the test is dest_dir is not None;
\* an exception of mkdir is not caught and ends the run
MakeDestDir ==
    /\ mpc = "mkdir"
    /\ IF ~dest_dir.given
       THEN mpc' = "returned" /\ dirstat' = dirstat
       ELSE IF mkdir_raises(dest_dir.path)
       THEN mpc' = "crashed" /\ dirstat' = dirstat
       ELSE /\ mpc' = "transfer"
            /\ dirstat' = [q \in DirUniverse |->
                             IF IsPrefix(q, dest_dir.path) THEN "dir"
                             ELSE dirstat[q]]
    /\ UNCHANGED <<copy_to, move_to, entries, decoded, image_files,
                   scan_pos, found_files, dest_dir, action_type, copy_pos, log>>
    /\ UNCHANGED cvars

\* the file of the current iteration of line 174 and its target (line 176)
current == found_files[copy_pos]
target == Slot(dest_dir.path, current.name)

InLoop == mpc = "transfer" /\ copy_pos <= Len(found_files)

\* the end of an iteration: the next file of the list is taken
NextFile(outcome) ==
    /\ log' = Append(log, [file |-> current, outcome |-> outcome])
    /\ copy_pos' = copy_pos + 1
    /\ UNCHANGED <<copy_to, move_to, dirstat, decoded, mpc, image_files,
                   scan_pos, found_files, dest_dir, action_type>>
    /\ UNCHANGED cvars

\* what a write through the path of entry e with content c leaves there:
\* a symbolic link is followed, anything else becomes a regular file
written(e, c) == IF e.kind = "link" THEN [kind |-> "link", data |-> c] ELSE File(c)

\* variant: break instead of continue after a collision
SkipAndBreak ==
    /\ InLoop
    /\ path_exists(entries[target])
    /\ entries' = entries
    /\ log' = Append(log, [file |-> current, outcome |-> "skipped"])
    /\ copy_pos' = Len(found_files) + 1
    /\ UNCHANGED <<copy_to, move_to, dirstat, decoded, mpc, image_files,
                   scan_pos, found_files, dest_dir, action_type>>
    /\ UNCHANGED cvars

\* lines 177-179
SkipExisting ==
    /\ InLoop
    /\ path_exists(entries[target])
    /\ entries' = entries
    /\ NextFile("skipped")

\* lines 181-182: shutil.copy2 succeeds
CopyFile ==
    /\ InLoop
    /\ ~path_exists(entries[target])
    /\ action_type = "copy"
    /\ entries' = [entries EXCEPT
                     ![target] = written(entries[target], entries[current].data)]
    /\ NextFile("copied")

\* lines 183-184: shutil.move succeeds, by os.rename, or across file systems
\* by copy2 followed by unlink
MoveFile ==
    /\ InLoop
    /\ ~path_exists(entries[target])
    /\ action_type # "copy"
    /\ \E how \in {"rename", "copy_unlink"} :
         entries' = [entries EXCEPT
                       ![target] = IF how = "rename" THEN entries[current]
                                   ELSE written(entries[target], entries[current].data),
                       ![current] = Absent]
    /\ NextFile("moved")

\* lines 185-186: an exception of exists(), copy2 or move is reported; a
\* failed transfer leaves the target untouched, partly written, or (move
\* across file systems whose unlink fails) written with the source in place
TransferFails ==
    /\ InLoop
    /\ \E left \in {"untouched", "partial", "copied"} :
         /\ left # "untouched" => ~path_exists(entries[target])
         /\ left = "copied" => action_type # "copy"
         /\ entries' =
              CASE left = "untouched" -> entries
                [] left = "partial" ->
                     [entries EXCEPT ![target] = written(entries[target], "partial")]
                [] left = "copied" ->
                     [entries EXCEPT
                        ![target] = written(entries[target], entries[current].data)]
    /\ NextFile("failed")

\* line 188
Finish ==
    /\ mpc = "transfer"
    /\ copy_pos > Len(found_files)
    /\ mpc' = "done"
    /\ UNCHANGED <<copy_to, move_to, dirstat, entries, decoded, image_files,
                   scan_pos, found_files, dest_dir, action_type, copy_pos, log>>
    /\ UNCHANGED cvars

MainNext ==
    \/ CheckFolder
    \/ ListImages
    \/ ScanFile
    \/ Report
    \/ SelectAction
    \/ MakeDestDir
    \/ SkipExisting
    \/ CopyFile
    \/ MoveFile
    \/ TransferFails
    \/ Finish

(***************************************************************************)
(* The specifications.                                                     *)
(***************************************************************************)
\* a direct call of is_screenshot on any path and file; main does not run
CallInit ==
    /\ file_path \in Paths
    /\ img \in Images
    /\ pc = "extension"
    /\ result = "none"
    /\ handles = 0
    /\ opens = 0
    /\ exif = NoExif
    /\ size = NoSize
    /\ copy_to = None
    /\ move_to = None
    /\ dirstat = [d \in DirUniverse |-> "absent"]
    /\ entries = [s \in Slots |-> Absent]
    /\ decoded = [c \in Contents |-> NotAnImage]
    /\ mpc = "idle"
    /\ image_files = <<>>
    /\ scan_pos = 1
    /\ found_files = <<>>
    /\ dest_dir = None
    /\ action_type = "None"
    /\ copy_pos = 1
    /\ log = <<>>

\* is_screenshot called directly on any path and file
CallSpec == CallInit /\ [][CallNext]_vars

\* one run of main
MainSpec == MainInit /\ [][MainNext]_vars

\* main is sequential code: while a statement remains, the run proceeds
MainFairSpec == MainSpec /\ WF_vars(MainNext)

\* the statement-by-statement call computes is_screenshot
CallAgrees == pc = "done" => result = is_screenshot(file_path, img)

(***************************************************************************)
(* The vocabulary of the properties, stated on the inputs alone.           *)
(***************************************************************************)
\* two characters are equal up to letter case
SameLetter(a, b) ==
    \/ a = b
    \/ \E k \in 1..Len(UpperCase) : {a, b} = {UpperCase[k], LowerCase[k]}

\* word occurs in name at offset off, letter case ignored
OccursAt(word, name, off) ==
    /\ off + Len(word) <= Len(name)
    /\ \A j \in 1..Len(word) : SameLetter(name[off + j], word[j])

\* the base name contains a recognized keyword, letter case ignored
NameHasKeyword ==
    \E k \in 1..Len(SCREENSHOT_KEYWORDS) : \E off \in 0..Len(file_path.name) :
        OccursAt(SCREENSHOT_KEYWORDS[k], file_path.name, off)

\* the base name is a non-empty stem followed by one of the five extensions,
\* letter case ignored
RecognizedExtension ==
    \E e \in IMAGE_EXTENSIONS :
        /\ Len(file_path.name) > Len(e)
        /\ OccursAt(e, file_path.name, Len(file_path.name) - Len(e))

Opens == img.open = "ok"

\* the EXIF mapping was read and holds one of the three photo tags
ExifHasPhotoTag ==
    /\ img.exif.kind = "dict"
    /\ img.exif.tags \cap {33434, 33437, 34855} # {}

\* the EXIF mapping is absent, empty, or holds none of the three photo tags
ExifHarmless ==
    /\ img.exif.kind \in {"None", "dict"}
    /\ img.exif.tags \cap {33434, 33437, 34855} = {}

SizeRead == img.size.kind = "ok"

LongSide == IF img.size.w >= img.size.h THEN img.size.w ELSE img.size.h
ShortSide == IF img.size.w >= img.size.h THEN img.size.h ELSE img.size.w

\* lo/100 <= long / short <= hi/100
RatioWithin(lo, hi) ==
    /\ ShortSide > 0
    /\ lo * ShortSide <= 100 * LongSide
    /\ 100 * LongSide <= hi * ShortSide

RatioRecognized ==
    RatioWithin(130, 136) \/ RatioWithin(175, 180) \/ RatioWithin(195, 240)

Returned == pc = "done"

(***************************************************************************)
(* Properties of is_screenshot (specification CallSpec).                   *)
(***************************************************************************)
\* C1, as stated: whenever the base name contains a keyword (letter case
\* ignored) the call returns True and never calls Image.open.
C1_KeywordAlwaysTrue ==
    (Returned /\ NameHasKeyword) => (result = "True" /\ opens = 0)

\* C1, amended: whenever the base name contains a keyword (letter case
\* ignored) and has a recognized extension, the call returns True whatever
\* the file presents (unreadable, photo EXIF, any size), and never calls
\* Image.open.
C1_KeywordTrueBehindGate ==
    (Returned /\ RecognizedExtension /\ NameHasKeyword)
        => (result = "True" /\ opens = 0)

\* a keyword-named file that cannot be decoded has been classified
C1_Witness ==
    /\ Returned /\ RecognizedExtension /\ NameHasKeyword
    /\ ~Opens
    /\ file_path.name # lower(file_path.name)
    /\ result = "True"

\* C2: a file with a recognized extension and no keyword that opens and
\* whose EXIF mapping holds one of the tags 33434, 33437, 34855 is
\* classified False for every width and height.
C2_ExifExcludesBeforeRatio ==
    (Returned /\ RecognizedExtension /\ ~NameHasKeyword /\ Opens
        /\ ExifHasPhotoTag) => result = "False"

\* a photo whose ratio lies in a recognized range has been classified False
C2_Witness ==
    /\ Returned /\ RecognizedExtension /\ ~NameHasKeyword /\ Opens
    /\ ExifHasPhotoTag /\ SizeRead /\ RatioRecognized
    /\ img.exif.tags \cap {33434, 33437, 34855} # {33434, 33437, 34855}
    /\ result = "False"

C5_TotalTwoValued ==
    Returned =>
        /\ result \in {"True", "False"}
        /\ (RecognizedExtension /\ ~NameHasKeyword
              /\ (~Opens \/ img.exif.kind = "AttributeError" \/ ~SizeRead))
           => result = "False"

\* _getexif() raised an exception that is neither UnidentifiedImageError
\* nor OSError, and the call returned False
C5_Witness ==
    /\ Returned /\ RecognizedExtension /\ ~NameHasKeyword /\ Opens
    /\ img.exif.kind = "AttributeError"
    /\ opens = 1
    /\ result = "False"

\* C6: a path whose lower-cased extension is not .png, .jpg, .jpeg, .heic
\* or .webp is classified False without any call of Image.open.
C6_ExtensionGate ==
    (Returned /\ ~RecognizedExtension) => (result = "False" /\ opens = 0)

\* a keyword-named file with a recognized extension inside its name, but
\* another one at its end, has been rejected
C6_Witness ==
    /\ Returned /\ ~RecognizedExtension /\ NameHasKeyword
    /\ \E e \in IMAGE_EXTENSIONS : contains(e, file_path.name)
    /\ result = "False"

\* C9: the call never holds more than one open file handle, and none is
\* open once it has returned or raised.
C9_HandleReleased ==
    /\ handles \in {0, 1}
    /\ Returned => handles = 0

\* a call that opened the file returned True from inside the with block
C9_Witness ==
    /\ Returned /\ opens = 1 /\ Opens /\ result = "True" /\ handles = 0

(***************************************************************************)
(* Properties of main (specifications MainSpec and MainFairSpec).          *)
(***************************************************************************)
\* the files processed so far are the first files of the matched list, in
\* list order, and at the end of the phase they are the whole list
LogFollowsList ==
    /\ Len(log) <= Len(found_files)
    /\ \A i \in 1..Len(log) : log[i].file = found_files[i]
    /\ mpc = "done" => Len(log) = Len(found_files)

C8_NeverOverwrites ==
    [][ /\ \A s \in Slots :
             (dest_dir.given /\ s.dir = dest_dir.path /\ entries[s] # Absent)
                 => entries'[s] = entries[s]
        /\ (Len(log') > Len(log) /\ log'[Len(log')].outcome \in {"copied", "moved"})
             => entries[target] = Absent
        /\ (Len(log') > Len(log) /\ log'[Len(log')].outcome = "skipped")
             => entries'[current] = entries[current] ]_vars

\* the phase has been entered: action and destination are selected
Selected == mpc \in {"mkdir", "transfer", "done", "crashed"}

====
